---------------------------- MODULE Spec2Model ----------------------------
(***************************************************************************)
(* A model of review-agent: the batched AI review of a merge request       *)
(* (AiReviewService) and the line-number annotation of its diffs           *)
(* (GitlabService).                                                        *)
(*                                                                         *)
(* A changed file is identified by its position in the merge request's    *)
(* change list (GitLab gives one change per new_path).  Text is a sequence *)
(* of one-character strings.  A score is held in tenths (7 is 70), the     *)
(* precision mergeReviewResults rounds to.                                 *)
(***************************************************************************)
EXTENDS Integers, Sequences, FiniteSets, TLC

(* ------------------------------ bounds -------------------------------- *)

\* The longest change list of a merge request.
MaxFiles == 4
\* The largest configured MAX_FILES_PER_REVIEW.
MaxBatch == 3
\* How many times the loop of splitIntoBatches is followed.
MaxSplitIters == 5
\* The lines of the diffs of a merge request, all files together.
MaxDiffLines == 4
\* The partial results handed to mergeReviewResults on its own.
MaxResults == 3
\* The requests that come to the guard.
MaxRequests == 2
\* The files handed to buildExtendedDiffContent on its own.
MaxDocFiles == 2

(* --------------------------- program constants ------------------------ *)

\* Math.round(avgScore * 10) / 10: scores are kept to one decimal.
ScoreScale == 10
\* The score of a response that cannot be parsed, and of a missing score.
DefaultScore == 7
MinScore == 1
MaxScore == 10
\* extractSummaryFromText keeps the first 500 characters.
SummaryChars == 500

VARIABLES
  serviceUrl,         \* configService.ai.serviceUrl: TRUE when it is set
  maxFilesPerReview,  \* configService.review.maxFilesPerReview
  changes,            \* diffResult.changes
  pc,                 \* where reviewMergeRequest is
  shouldBatch,        \* the local of reviewMergeRequest
  i,                  \* the loop variable of splitIntoBatches
  batches,            \* the array splitIntoBatches builds
  bi,                 \* the loop variable of batchReviewMergeRequest
  batchResults,       \* the array batchReviewMergeRequest builds
  inFlight,           \* the reviewer calls (indices of calls) not yet completed
  calls,              \* every reviewer call issued, in order: the files of its prompt
  outcomes,           \* what each completed call ended with
  mergeCalls,         \* how many times mergeReviewResults was invoked
  result,             \* what reviewMergeRequest returned: <<>> until then, <<r>> after
  error               \* what reviewMergeRequest rejected with

reviewVars == <<serviceUrl, maxFilesPerReview, changes, pc, shouldBatch, i, batches,
                bi, batchResults, inFlight, calls, outcomes, mergeCalls, result, error>>

VARIABLES
  diffFiles,          \* the diff text of each file handed to addLineNumbers
  pcA,                \* where addLineNumbers is
  fi,                 \* the file addLineNumbers is at
  hunks,              \* splitHunk(diffFile.diff)
  hi,                 \* the hunk the forEach of addLineNumbers is at
  pos,                \* the line of the hunk computeHunkWithLineNumbers is at
  oldLineNumber,      \* the old counter
  newLineNumber,      \* the new counter
  temp,               \* the [head, line] pairs of the hunk
  maxHeadLength,      \* the longest head of the hunk
  oldLines,           \* the old table of the hunk
  newLines,           \* the new table of the hunk
  newDiffParts,       \* the rendered hunks of the file
  oldLinesWithNumber, \* the old table of the file
  newLinesWithNumber, \* the new table of the file
  outFiles,           \* the files addLineNumbers has mapped
  annotated,          \* every return of computeHunkWithLineNumbers, with its hunk
  extendedContent     \* what buildExtendedDiffContent returned: <<>> or <<text>>

annotVars == <<diffFiles, pcA, fi, hunks, hi, pos, oldLineNumber, newLineNumber, temp,
               maxHeadLength, oldLines, newLines, newDiffParts, oldLinesWithNumber,
               newLinesWithNumber, outFiles, annotated, extendedContent>>

\* The application around the review: ConfigService, and processMergeRequest
\* of WebhookService with its notification collaborator.
VARIABLES
  gitlabBaseUrl,      \* configService.gitlab.baseUrl: TRUE when it is set
  gitlabWebhookToken, \* configService.gitlab.webhookToken: TRUE when it is set
  pcM,                \* where the application is
  pushUrl,            \* the pushUrl of the event: TRUE when it is given
  caught,             \* the message of the error the catch of processMergeRequest has
  notified,           \* every call of the notification service, in order
  thrown              \* what processMergeRequest threw: <<>> or <<message>>

appVars == <<gitlabBaseUrl, gitlabWebhookToken, pcM, pushUrl, caught, notified, thrown>>

\* WebhookGuard in front of the webhook handler.
VARIABLES
  expectedToken,      \* configService.gitlab.webhookToken: <<>> is the empty string
  request,            \* the headers of the request at the guard: <<>> or <<headers>>
  pcG,                \* where the request is: "wait", "guard" or "handler"
  served,             \* what every request ended with at the guard, in order
  notices             \* the error notifications canActivate started, in order

guardVars == <<expectedToken, request, pcG, served, notices>>

vars == <<reviewVars, annotVars, appVars, guardVars>>

None == "none"

(* ------------------------------ helpers ------------------------------- *)

Min(a, b) == IF a < b THEN a ELSE b
Max(a, b) == IF a > b THEN a ELSE b

RECURSIVE SumSeq(_)
SumSeq(s) == IF s = <<>> THEN 0 ELSE Head(s) + SumSeq(Tail(s))

RECURSIVE Flatten(_)
Flatten(ss) == IF ss = <<>> THEN <<>> ELSE Head(ss) \o Flatten(Tail(ss))

\* Array.prototype.slice(start, end): a negative index counts from the end,
\* both are clamped to the array, an empty range gives [].
SliceIndex(n, k) == IF k < 0 THEN Max(n + k, 0) ELSE Min(k, n)
Slice(items, start, end) ==
  LET from == SliceIndex(Len(items), start)
      to   == SliceIndex(Len(items), end)
  IN  IF from < to THEN SubSeq(items, from + 1, to) ELSE <<>>

\* Math.round of the rational num/den (den > 0): to the nearest integer,
\* halves upwards.
FloorDiv(num, den) == num \div den
RoundDiv(num, den) == (2 * num + den) \div (2 * den)

(* --------------------------- the reviewer ----------------------------- *)

\* The failures of callAI: fetch rejecting (transport, timeout) and a
\* response that is not ok.
Errors == {"timeout", "http500"}
ConfigError == "AI_SERVICE_URL is not configured"

\* The file reviews a reviewer may answer with for a prompt over `files`:
\* none, or one per file of the prompt.
ReviewOf(f) == [filePath |-> f, comments |-> <<"c">>, severity |-> "high"]
AnsweredReviews(files) == {<<>>, [k \in 1..Len(files) |-> ReviewOf(files[k])]}

\* The scores a reviewer's JSON may carry: <<n>> for the number n, <<>> for a
\* score that is absent or not a number (Number(score) is NaN).
RawScores == {<<>>, <<0>>, <<6>>, <<9>>, <<12>>}

\* The content callAI returns: JSON of the asked shape ("json": its score,
\* summary and fileReviews), or text that JSON.parse rejects ("text": the
\* text is held in summary; the empty content is such a text).
Texts == {<<>>, <<" ", "n", "o", " ">>}
EmptyObject == [kind |-> "json", score |-> <<>>, summary |-> <<>>, fileReviews |-> <<>>]
Responses(files) ==
  [kind : {"json"}, score : RawScores, summary : {<<"o", "k">>},
   fileReviews : AnsweredReviews(files)]
  \cup {EmptyObject}
  \cup [kind : {"text"}, score : {<<>>}, summary : Texts, fileReviews : {<<>>}]

(* -------------------------- parseAIResponse --------------------------- *)

normalizeScore(score) ==
  IF score = <<>> THEN DefaultScore * ScoreScale
  ELSE Max(MinScore, Min(MaxScore, score[1])) * ScoreScale

RECURSIVE TrimLeft(_)
TrimLeft(t) == IF t # <<>> /\ Head(t) = " " THEN TrimLeft(Tail(t)) ELSE t
RECURSIVE TrimRight(_)
TrimRight(t) ==
  IF t # <<>> /\ t[Len(t)] = " " THEN TrimRight(SubSeq(t, 1, Len(t) - 1)) ELSE t
Trim(t) == TrimRight(TrimLeft(t))

DefaultSummary == <<"d", "o", "n", "e">>
UnparsedSummary == <<"u", "n", "p", "a", "r", "s", "e", "d">>
ManualReviewComment == "manual review required"

extractSummaryFromText(text) ==
  LET summary == Trim(Slice(text, 0, SummaryChars))
  IN  IF summary # <<>> THEN summary ELSE UnparsedSummary

OneFallbackReview(files) ==
  IF files = <<>> THEN <<>>
  ELSE <<[filePath |-> files[1], comments |-> <<ManualReviewComment>>, severity |-> "low"]>>
FallbackReviews(files) ==
  [k \in 1..Len(files) |->
     [filePath |-> files[k], comments |-> <<ManualReviewComment>>, severity |-> "low"]]

\* Reviews without a path or without a comment are dropped.
normalizeFileReviews(fileReviews) ==
  SelectSeq(fileReviews, LAMBDA r : r.filePath # 0 /\ r.comments # <<>>)

parseAIResponse(response, files) ==
  IF response.kind = "json"
  THEN [score |-> normalizeScore(response.score),
        summary |-> IF response.summary # <<>> THEN response.summary ELSE DefaultSummary,
        fileReviews |-> normalizeFileReviews(response.fileReviews)]
  ELSE [score |-> DefaultScore * ScoreScale,
        summary |-> extractSummaryFromText(response.summary),
        fileReviews |-> FallbackReviews(files)]

(* ------------------------- mergeReviewResults ------------------------- *)

MergedPrefix == <<"a", "l", "l", ":", "\n">>
EmptySummary == <<"e", "m", "p", "t", "y">>

\* (A join with a line feed only.)
RECURSIVE JoinWithLineFeed(_)
JoinWithLineFeed(ss) ==
  IF ss = <<>> THEN <<>>
  ELSE IF Len(ss) = 1 THEN ss[1]
  ELSE Head(ss) \o <<"\n">> \o JoinWithLineFeed(Tail(ss))
\* summaries.join('\n\n').
RECURSIVE JoinSummaries(_)
JoinSummaries(ss) ==
  IF ss = <<>> THEN <<>>
  ELSE IF Len(ss) = 1 THEN ss[1]
  ELSE Head(ss) \o <<"\n", "\n">> \o JoinSummaries(Tail(ss))

\* (A merge that keeps the first review of a path only.)
RECURSIVE DropRepeatedPaths(_)
DropRepeatedPaths(rs) ==
  IF rs = <<>> THEN <<>>
  ELSE LET init == DropRepeatedPaths(SubSeq(rs, 1, Len(rs) - 1))
           last == rs[Len(rs)]
       IN  IF \E k \in 1..Len(init) : init[k].filePath = last.filePath
           THEN init ELSE Append(init, last)
MergedByPath(results) ==
  DropRepeatedPaths(Flatten([k \in 1..Len(results) |-> results[k].fileReviews]))
\* results.flatMap((r) => r.fileReviews).
allFileReviews(results) == Flatten([k \in 1..Len(results) |-> results[k].fileReviews])

\* (A merge without the case of one result.)
MergeAlwaysAverages(results) ==
  IF Len(results) = 0
  THEN [score |-> 0, summary |-> EmptySummary, fileReviews |-> <<>>]
  ELSE [score |-> RoundDiv(SumSeq([k \in 1..Len(results) |-> results[k].score]),
                           Len(results)),
        summary |-> MergedPrefix
                      \o JoinSummaries([k \in 1..Len(results) |-> results[k].summary]),
        fileReviews |-> allFileReviews(results)]
mergeReviewResults(results) ==
  IF Len(results) = 0
  THEN [score |-> 0, summary |-> EmptySummary, fileReviews |-> <<>>]
  ELSE IF Len(results) = 1 THEN results[1]
  ELSE
    LET sum == SumSeq([k \in 1..Len(results) |-> results[k].score])
        summaries == SelectSeq([k \in 1..Len(results) |-> results[k].summary],
                               LAMBDA s : s # <<>>)
    IN  [score |-> RoundDiv(sum, Len(results)),
         summary |-> MergedPrefix \o JoinSummaries(summaries),
         fileReviews |-> allFileReviews(results)]


(* ------------------------- the review of an MR ------------------------ *)

\* The values MAX_FILES_PER_REVIEW may be parsed to.
MaxFilesValues == (0 - 1)..MaxBatch

shouldBatchProcess(chs, maxFiles) == Len(chs) > maxFiles

\* `await this.singleReviewMergeRequest(...)`: the caller goes on only when
\* the call has completed.
NoAwait == "loop"
AwaitCall == "awaiting"

\* batchDiff = {...diffResult, changes: batch}: the changes of the MR handed
\* to singleReviewMergeRequest for one batch.
WholeDiff(chs, batch) == chs
batchDiff(chs, batch) == batch

\* The files whose diffs buildReviewPrompt puts into the prompt.
buildReviewPrompt(files) == files

\* The value a call's response resolves singleReviewMergeRequest to.
SingleResult(response, files) == parseAIResponse(response, files)

\* addLineNumbers is not running.
AnnotIdle ==
  /\ diffFiles = <<>>
  /\ pcA = "idle"
  /\ fi = 0
  /\ hunks = <<>>
  /\ hi = 0
  /\ pos = 0
  /\ oldLineNumber = 0
  /\ newLineNumber = 0
  /\ temp = <<>>
  /\ maxHeadLength = 0
  /\ oldLines = <<>>
  /\ newLines = <<>>
  /\ newDiffParts = <<>>
  /\ oldLinesWithNumber = <<>>
  /\ newLinesWithNumber = <<>>
  /\ outFiles = <<>>
  /\ annotated = <<>>
  /\ extendedContent = <<>>

\* No request is at the guard.
GuardIdle ==
  /\ expectedToken = <<"s", "1">>
  /\ request = <<>>
  /\ pcG = "off"
  /\ served = <<>>
  /\ notices = <<>>

\* No event is being processed.
AppIdle ==
  /\ GuardIdle
  /\ gitlabBaseUrl = TRUE
  /\ gitlabWebhookToken = TRUE
  /\ pcM = "off"
  /\ pushUrl = FALSE
  /\ caught = None
  /\ notified = <<>>
  /\ thrown = <<>>

Init ==
  /\ AnnotIdle
  /\ AppIdle
  /\ serviceUrl \in BOOLEAN
  /\ maxFilesPerReview \in MaxFilesValues
  /\ \E L \in 0..MaxFiles : changes = [k \in 1..L |-> k]
  /\ pc = "start"
  /\ shouldBatch = FALSE
  /\ i = 0
  /\ batches = <<>>
  /\ bi = 0
  /\ batchResults = <<>>
  /\ inFlight = {}
  /\ calls = <<>>
  /\ outcomes = <<>>
  /\ mergeCalls = 0
  /\ result = <<>>
  /\ error = None

\* reviewMergeRequest up to its branch on shouldBatch.
ReviewMergeRequest ==
  /\ pc = "start"
  /\ IF ~serviceUrl
     THEN /\ pc' = "rejected"
          /\ error' = ConfigError
          /\ UNCHANGED shouldBatch
     ELSE /\ shouldBatch' = shouldBatchProcess(changes, maxFilesPerReview)
          /\ pc' = IF shouldBatch' THEN "split" ELSE "single"
          /\ UNCHANGED error
  /\ UNCHANGED <<annotVars, appVars, guardVars>>
  /\ UNCHANGED <<serviceUrl, maxFilesPerReview, changes, i, batches, bi,
                 batchResults, inFlight, calls, outcomes, mergeCalls, result>>

\* `i += batchSize`.
SkipOne(k, batchSize) == k + batchSize + 1
NextStart(k, batchSize) == k + batchSize

\* One turn of the loop of splitIntoBatches.
SplitStep ==
  /\ pc = "split"
  /\ i < Len(changes)
  /\ Len(batches) < MaxSplitIters
  /\ batches' = Append(batches, Slice(changes, i, i + maxFilesPerReview))
  /\ i' = NextStart(i, maxFilesPerReview)
  /\ UNCHANGED <<annotVars, appVars, guardVars>>
  /\ UNCHANGED <<serviceUrl, maxFilesPerReview, changes, pc, shouldBatch, bi,
                 batchResults, inFlight, calls, outcomes, mergeCalls, result, error>>

\* The loop of splitIntoBatches ends and the batches are returned.
SplitDone ==
  /\ pc = "split"
  /\ ~(i < Len(changes))
  /\ pc' = "loop"
  /\ bi' = 0
  /\ batchResults' = <<>>
  /\ UNCHANGED <<annotVars, appVars, guardVars>>
  /\ UNCHANGED <<serviceUrl, maxFilesPerReview, changes, shouldBatch, i, batches,
                 inFlight, calls, outcomes, mergeCalls, result, error>>

\* singleReviewMergeRequest builds the prompt and callAI sends it.
IssueCall(files) ==
  /\ calls' = Append(calls, buildReviewPrompt(files))
  /\ outcomes' = Append(outcomes, None)
  /\ inFlight' = inFlight \cup {Len(calls) + 1}
  /\ pc' = AwaitCall

\* The body of the loop of batchReviewMergeRequest up to its await.
BatchCall ==
  /\ pc = "loop"
  /\ bi < Len(batches)
  /\ IssueCall(batchDiff(changes, batches[bi + 1]))
  /\ UNCHANGED <<annotVars, appVars, guardVars>>
  /\ UNCHANGED <<serviceUrl, maxFilesPerReview, changes, shouldBatch, i, batches, bi,
                 batchResults, mergeCalls, result, error>>

\* reviewMergeRequest's call of singleReviewMergeRequest over the whole MR.
SingleCall ==
  /\ pc = "single"
  /\ IssueCall(changes)
  /\ UNCHANGED <<annotVars, appVars, guardVars>>
  /\ UNCHANGED <<serviceUrl, maxFilesPerReview, changes, shouldBatch, i, batches, bi,
                 batchResults, mergeCalls, result, error>>

\* (A loop that caught the failure of a batch and went on to the next.)
CallFailsBatchSkipped ==
  /\ \E c \in inFlight, e \in Errors :
       /\ inFlight' = inFlight \ {c}
       /\ outcomes' = [outcomes EXCEPT ![c] = e]
       /\ IF pc \in {"returned", "rejected"}
          THEN UNCHANGED <<pc, error, bi>>
          ELSE IF shouldBatch
          THEN pc' = "loop" /\ bi' = bi + 1 /\ UNCHANGED error
          ELSE pc' = "rejected" /\ error' = e /\ UNCHANGED bi
  /\ UNCHANGED <<annotVars, appVars, guardVars>>
  /\ UNCHANGED <<serviceUrl, maxFilesPerReview, changes, shouldBatch, i, batches,
                 batchResults, calls, mergeCalls, result>>

\* callAI throws: nothing on the way catches it but reviewMergeRequest,
\* which logs and throws it again.
CallFails ==
  /\ \E c \in inFlight, e \in Errors :
       /\ inFlight' = inFlight \ {c}
       /\ outcomes' = [outcomes EXCEPT ![c] = e]
       /\ IF pc \in {"returned", "rejected"}
          THEN UNCHANGED <<pc, error>>
          ELSE pc' = "rejected" /\ error' = e
  /\ UNCHANGED <<annotVars, appVars, guardVars>>
  /\ UNCHANGED <<serviceUrl, maxFilesPerReview, changes, shouldBatch, i, batches, bi,
                 batchResults, calls, mergeCalls, result>>

\* callAI returns the response's content and parseAIResponse turns it into
\* a result: the MR's result, or the next element of batchResults.
CallReturns ==
  /\ \E c \in inFlight :
       \E r \in Responses(calls[c]) :
         LET res == SingleResult(r, calls[c]) IN
         /\ inFlight' = inFlight \ {c}
         /\ outcomes' = [outcomes EXCEPT ![c] = r.kind]
         /\ IF pc \in {"returned", "rejected"}
            THEN UNCHANGED <<pc, bi, batchResults, result>>
            ELSE IF shouldBatch
            THEN /\ batchResults' = Append(batchResults, res)
                 /\ bi' = bi + 1
                 /\ pc' = "loop"
                 /\ UNCHANGED result
            ELSE /\ result' = <<res>>
                 /\ pc' = "returned"
                 /\ UNCHANGED <<bi, batchResults>>
  /\ UNCHANGED <<annotVars, appVars, guardVars>>
  /\ UNCHANGED <<serviceUrl, maxFilesPerReview, changes, shouldBatch, i, batches,
                 calls, mergeCalls, error>>

\* The loop of batchReviewMergeRequest is over: the results are merged and
\* returned.
MergeAndReturn ==
  /\ pc = "loop"
  /\ ~(bi < Len(batches))
  /\ result' = <<mergeReviewResults(batchResults)>>
  /\ mergeCalls' = mergeCalls + 1
  /\ pc' = "returned"
  /\ UNCHANGED <<annotVars, appVars, guardVars>>
  /\ UNCHANGED <<serviceUrl, maxFilesPerReview, changes, shouldBatch, i, batches, bi,
                 batchResults, inFlight, calls, outcomes, error>>


Next ==
  \/ ReviewMergeRequest
  \/ SplitStep
  \/ SplitDone
  \/ BatchCall
  \/ SingleCall
  \/ CallFails
  \/ CallReturns
  \/ MergeAndReturn

Spec == Init /\ [][Next]_vars


(* ----------------------- text, as characters -------------------------- *)

LF == "\n"

\* String.prototype.split('\n'): the lines of a text, one more than it has
\* line feeds.
RECURSIVE SplitFrom(_, _, _)
SplitFrom(text, from, p) ==
  IF p > Len(text) THEN <<SubSeq(text, from, Len(text))>>
  ELSE IF text[p] = LF
  THEN <<SubSeq(text, from, p - 1)>> \o SplitFrom(text, p + 1, p + 1)
  ELSE SplitFrom(text, from, p + 1)
SplitLines(text) == SplitFrom(text, 1, 1)

\* Array.prototype.join('\n').
RECURSIVE JoinLines(_)
JoinLines(ls) ==
  IF ls = <<>> THEN <<>>
  ELSE IF Len(ls) = 1 THEN ls[1]
  ELSE Head(ls) \o <<LF>> \o JoinLines(Tail(ls))

startsWith(line, prefix) ==
  Len(line) >= Len(prefix) /\ SubSeq(line, 1, Len(prefix)) = prefix

Digits == <<"0", "1", "2", "3", "4", "5", "6", "7", "8", "9">>
IsDigit(c) == \E d \in 1..10 : Digits[d] = c
DigitValue(c) == (CHOOSE d \in 1..10 : Digits[d] = c) - 1

\* parseInt(digits, 10) of a run of decimal digits.
RECURSIVE parseInt(_)
parseInt(ds) ==
  IF ds = <<>> THEN 0
  ELSE 10 * parseInt(SubSeq(ds, 1, Len(ds) - 1)) + DigitValue(ds[Len(ds)])

\* `${n}` of a number n >= 0.
RECURSIVE ToDigits(_)
ToDigits(n) ==
  IF n < 10 THEN <<Digits[n + 1]>> ELSE ToDigits(n \div 10) \o <<Digits[(n % 10) + 1]>>

\* String.prototype.padEnd(n): spaces are added up to the length n.
NoPad(t, n) == t
RECURSIVE padEnd(_, _)
padEnd(t, n) == IF Len(t) >= n THEN t ELSE padEnd(t \o <<" ">>, n)

(* ------------------------------ splitHunk ----------------------------- *)

\* The end of the run of digits of `line` that starts at p: the first place
\* from p on that holds no digit.
RECURSIVE DigitsEnd(_, _)
DigitsEnd(line, p) ==
  IF p <= Len(line) /\ IsDigit(line[p]) THEN DigitsEnd(line, p + 1) ELSE p

LitAt(line, p, lit) ==
  p + Len(lit) - 1 <= Len(line) /\ SubSeq(line, p, p + Len(lit) - 1) = lit
SkipComma(line, p) == IF LitAt(line, p, <<",">>) THEN p + 1 ELSE p

\* /@@ -(\d+),?(\d+)? \+(\d+),?(\d+)? @@/ tried at the place p of the line:
\* <<>> when it does not match there, else <<match[1], match[3]>>.
HeaderAt(line, p) ==
  LET q1 == p + 4
      e1 == DigitsEnd(line, q1)
      e2 == DigitsEnd(line, SkipComma(line, e1))
      q3 == e2 + 2
      e3 == DigitsEnd(line, q3)
      e4 == DigitsEnd(line, SkipComma(line, e3))
  IN  IF /\ LitAt(line, p, <<"@", "@", " ", "-">>)
         /\ e1 > q1
         /\ LitAt(line, e2, <<" ", "+">>)
         /\ e3 > q3
         /\ LitAt(line, e4, <<" ", "@", "@">>)
      THEN <<SubSeq(line, q1, e1 - 1), SubSeq(line, q3, e3 - 1)>>
      ELSE <<>>

\* line.match(...): the leftmost match in the line.
RECURSIVE HeaderFrom(_, _)
HeaderFrom(line, p) ==
  IF p > Len(line) THEN <<>>
  ELSE LET m == HeaderAt(line, p)
       IN  IF m # <<>> THEN m ELSE HeaderFrom(line, p + 1)
HeaderMatch(line) == HeaderFrom(line, 1)

HunkFromOne == [oldStart |-> 1, newStart |-> 1, hunkLines |-> <<>>]
EmptyHunk == [oldStart |-> 0, newStart |-> 0, hunkLines |-> <<>>]

\* The callback of lines.forEach in splitHunk, on the pair of hunks and
\* currentHunk.
SplitHunkLine(st, line) ==
  LET isHeader == startsWith(line, <<"@", "@">>)
      match == HeaderMatch(line)
      pushed == isHeader /\ st.currentHunk.hunkLines # <<>>
      hs == IF pushed THEN Append(st.hunks, st.currentHunk) ELSE st.hunks
      cur == IF pushed THEN EmptyHunk ELSE st.currentHunk
      started == IF isHeader /\ match # <<>>
                 THEN [cur EXCEPT !.oldStart = parseInt(match[1]),
                                  !.newStart = parseInt(match[2])]
                 ELSE cur
  IN  [hunks |-> hs,
       currentHunk |-> [started EXCEPT !.hunkLines = Append(@, line)]]

RECURSIVE SplitHunkFold(_, _)
SplitHunkFold(st, lines) ==
  IF lines = <<>> THEN st
  ELSE SplitHunkFold(SplitHunkLine(st, Head(lines)), Tail(lines))

splitHunk(diff) ==
  LET st == SplitHunkFold([hunks |-> <<>>, currentHunk |-> EmptyHunk], SplitLines(diff))
  IN  IF st.currentHunk.hunkLines # <<>> THEN Append(st.hunks, st.currentHunk)
      ELSE st.hunks

(* -------------------- computeHunkWithLineNumbers ---------------------- *)

\* Map.prototype.set.
MapSet(m, k, v) == [x \in (DOMAIN m) \cup {k} |-> IF x = k THEN v ELSE m[x]]

\* Every entry of `from` set in `into`, as the forEach of addLineNumbers does.
MapKeepFirst(into, from) ==
  [x \in (DOMAIN into) \cup (DOMAIN from) |-> IF x \in DOMAIN into THEN into[x] ELSE from[x]]
MapSetAll(into, from) ==
  [x \in (DOMAIN into) \cup (DOMAIN from) |-> IF x \in DOMAIN from THEN from[x] ELSE into[x]]

\* `if (line.startsWith('-')) ... else if (line.startsWith('+')) ... else`.
IsRemovedByPlus(line) == startsWith(line, <<"+">>)
IsRemoved(line) == startsWith(line, <<"-">>)
IsAdded(line) == ~IsRemoved(line) /\ startsWith(line, <<"+">>)
IsContext(line) == ~IsRemoved(line) /\ ~IsAdded(line)

\* The key a context line is set at in the new table.
ContextKeyOld(old, new) == old
ContextNewKey(old, new) == new

RemovedHead(old) == <<"(">> \o ToDigits(old) \o <<",", " ", ")">>
AddedHead(new) == <<"(", " ", ",", " ">> \o ToDigits(new) \o <<")">>
ContextHead(old, new) == <<"(">> \o ToDigits(old) \o <<",", " ">> \o ToDigits(new) \o <<")">>

\* `let oldLineNumber = oldStart; let newLineNumber = newStart`.
CarriedOld(hunk) == IF annotated = <<>> THEN hunk.oldStart ELSE oldLineNumber
StartFromZero(hunk) == 0
InitialOld(hunk) == hunk.oldStart
NewFromOldStart(hunk) == hunk.oldStart
InitialNew(hunk) == hunk.newStart

\* The rendered lines of a hunk: temp.forEach(... formattedHunk.push ...).
FormattedHunk(header, pairs, width) ==
  <<header>> \o [k \in 1..Len(pairs) |-> padEnd(pairs[k][1], width) \o <<" ">> \o pairs[k][2]]

(* --------------------------- addLineNumbers --------------------------- *)

\* The lines diffs are made of: a hunk header, a header the pattern does
\* not match, a removed, an added and a context line, and the empty line
\* (the one a final line feed leaves).
HeaderLine == <<"@", "@", " ", "-", "1", ",", "3", " ", "+", "1", ",", "4", " ", "@", "@">>
FarHeaderLine == <<"@", "@", " ", "-", "9", " ", "+", "1", "2", " ", "@", "@">>
GarbageHeader == <<"@", "@", " ", "g", " ", "@", "@">>
RemovedLineText == <<"-", "o">>
AddedLineText == <<"+", "n">>
ContextLineText == <<" ", "c">>
DiffLineKinds ==
  {HeaderLine, GarbageHeader, RemovedLineText, AddedLineText, ContextLineText, <<>>}

\* The hunk of the specification's example, and a hunk whose numbers pass
\* from one digit to two.
ExampleDiff ==
  JoinLines(<<HeaderLine, ContextLineText, RemovedLineText, AddedLineText, AddedLineText>>)
FarDiff ==
  JoinLines(<<FarHeaderLine, ContextLineText, RemovedLineText, AddedLineText, ContextLineText>>)
\* A file of two hunks, the second beyond the lines of the first.
TwoHunkDiff ==
  JoinLines(<<HeaderLine, RemovedLineText, AddedLineText, FarHeaderLine, ContextLineText,
              AddedLineText>>)

\* The file lists annotated: one or two files of `total` lines in all, and
\* the examples.
IsInput(files, total) ==
  \/ \E n \in 1..total : \E ls \in [1..n -> DiffLineKinds] : files = <<JoinLines(ls)>>
  \/ \E n1, n2 \in 1..total :
       /\ n1 + n2 <= total
       /\ \E l1 \in [1..n1 -> DiffLineKinds], l2 \in [1..n2 -> DiffLineKinds] :
            files = <<JoinLines(l1), JoinLines(l2)>>
  \/ files \in {<<ExampleDiff>>, <<FarDiff>>, <<ExampleDiff, ExampleDiff>>, <<TwoHunkDiff>>}

\* reviewMergeRequest is not running.
ReviewIdle ==
  /\ serviceUrl = TRUE
  /\ maxFilesPerReview = MaxBatch
  /\ changes = <<>>
  /\ pc = "start"
  /\ shouldBatch = FALSE
  /\ i = 0
  /\ batches = <<>>
  /\ bi = 0
  /\ batchResults = <<>>
  /\ inFlight = {}
  /\ calls = <<>>
  /\ outcomes = <<>>
  /\ mergeCalls = 0
  /\ result = <<>>
  /\ error = None

AnnotInit ==
  /\ ReviewIdle
  /\ AppIdle
  /\ IsInput(diffFiles, MaxDiffLines)
  /\ pcA = "files"
  /\ fi = 1
  /\ hunks = <<>>
  /\ hi = 0
  /\ pos = 0
  /\ oldLineNumber = 0
  /\ newLineNumber = 0
  /\ temp = <<>>
  /\ maxHeadLength = 0
  /\ oldLines = <<>>
  /\ newLines = <<>>
  /\ newDiffParts = <<>>
  /\ oldLinesWithNumber = <<>>
  /\ newLinesWithNumber = <<>>
  /\ outFiles = <<>>
  /\ annotated = <<>>
  /\ extendedContent = <<>>

\* The callback of diffFiles.map up to hunks.forEach.
StartFile ==
  /\ pcA = "files"
  /\ fi <= Len(diffFiles)
  /\ hunks' = splitHunk(diffFiles[fi])
  /\ oldLinesWithNumber' = <<>>
  /\ newLinesWithNumber' = <<>>
  /\ newDiffParts' = <<>>
  /\ hi' = 1
  /\ pcA' = "hunks"
  /\ UNCHANGED <<reviewVars, appVars, guardVars>>
  /\ UNCHANGED <<diffFiles, fi, pos, oldLineNumber, newLineNumber, temp, maxHeadLength,
                 oldLines, newLines, outFiles, annotated,
                 extendedContent>>

\* computeHunkWithLineNumbers up to its forEach over the body.
StartHunk ==
  /\ pcA = "hunks"
  /\ hi <= Len(hunks)
  /\ temp' = <<>>
  /\ maxHeadLength' = 0
  /\ oldLines' = <<>>
  /\ newLines' = <<>>
  /\ oldLineNumber' = InitialOld(hunks[hi])
  /\ newLineNumber' = InitialNew(hunks[hi])
  /\ pos' = 2
  /\ pcA' = "lines"
  /\ UNCHANGED <<reviewVars, appVars, guardVars>>
  /\ UNCHANGED <<diffFiles, fi, hunks, hi, newDiffParts, oldLinesWithNumber,
                 newLinesWithNumber, outFiles, annotated,
                 extendedContent>>

AtLine == pcA = "lines" /\ pos <= Len(hunks[hi].hunkLines)
Line == hunks[hi].hunkLines[pos]

\* The forEach callback on a line that starts with '-'.
RemovedLine ==
  /\ AtLine
  /\ IsRemoved(Line)
  /\ LET head == RemovedHead(oldLineNumber) IN
       /\ temp' = Append(temp, <<head, Line>>)
       /\ maxHeadLength' = Max(maxHeadLength, Len(head))
  /\ oldLines' = MapSet(oldLines, oldLineNumber, Line)
  /\ oldLineNumber' = oldLineNumber + 1
  /\ pos' = pos + 1
  /\ UNCHANGED <<reviewVars, appVars, guardVars>>
  /\ UNCHANGED <<diffFiles, pcA, fi, hunks, hi, newLineNumber, newLines, newDiffParts,
                 oldLinesWithNumber, newLinesWithNumber, outFiles, annotated,
                 extendedContent>>

\* The forEach callback on a line that starts with '+'.
AddedLine ==
  /\ AtLine
  /\ IsAdded(Line)
  /\ LET head == AddedHead(newLineNumber) IN
       /\ temp' = Append(temp, <<head, Line>>)
       /\ maxHeadLength' = Max(maxHeadLength, Len(head))
  /\ newLines' = MapSet(newLines, newLineNumber, Line)
  /\ newLineNumber' = newLineNumber + 1
  /\ pos' = pos + 1
  /\ UNCHANGED <<reviewVars, appVars, guardVars>>
  /\ UNCHANGED <<diffFiles, pcA, fi, hunks, hi, oldLineNumber, oldLines, newDiffParts,
                 oldLinesWithNumber, newLinesWithNumber, outFiles, annotated,
                 extendedContent>>

\* The forEach callback on any other line.
ContextLine ==
  /\ AtLine
  /\ IsContext(Line)
  /\ LET head == ContextHead(oldLineNumber, newLineNumber) IN
       /\ temp' = Append(temp, <<head, Line>>)
       /\ maxHeadLength' = Max(maxHeadLength, Len(head))
  /\ oldLines' = MapSet(oldLines, oldLineNumber, Line)
  /\ newLines' = MapSet(newLines, ContextNewKey(oldLineNumber, newLineNumber), Line)
  /\ oldLineNumber' = oldLineNumber + 1
  /\ newLineNumber' = newLineNumber + 1
  /\ pos' = pos + 1
  /\ UNCHANGED <<reviewVars, appVars, guardVars>>
  /\ UNCHANGED <<diffFiles, pcA, fi, hunks, hi, newDiffParts, oldLinesWithNumber,
                 newLinesWithNumber, outFiles, annotated,
                 extendedContent>>

\* computeHunkWithLineNumbers renders the hunk and returns; the callback of
\* hunks.forEach keeps the rendering and sets the hunk's tables in the file's.
FinishHunk ==
  /\ pcA = "lines"
  /\ pos > Len(hunks[hi].hunkLines)
  /\ LET formattedHunk == FormattedHunk(hunks[hi].hunkLines[1], temp, maxHeadLength) IN
       /\ newDiffParts' = Append(newDiffParts, JoinLines(formattedHunk))
       /\ annotated' = Append(annotated, [hunk |-> hunks[hi],
                                          formattedHunk |-> formattedHunk,
                                          oldLines |-> oldLines,
                                          newLines |-> newLines])
  /\ newLinesWithNumber' = MapSetAll(newLinesWithNumber, newLines)
  /\ oldLinesWithNumber' = MapSetAll(oldLinesWithNumber, oldLines)
  /\ hi' = hi + 1
  /\ pcA' = "hunks"
  /\ UNCHANGED <<reviewVars, appVars, guardVars>>
  /\ UNCHANGED <<diffFiles, fi, hunks, pos, oldLineNumber, newLineNumber, temp,
                 maxHeadLength, oldLines, newLines, outFiles, extendedContent>>

\* The callback of diffFiles.map returns the file with its extended diff
\* and its tables.
FinishFile ==
  /\ pcA = "hunks"
  /\ hi > Len(hunks)
  /\ outFiles' = Append(outFiles, [diff |-> diffFiles[fi],
                                   extendedDiff |-> JoinLines(newDiffParts),
                                   newLinesWithNumber |-> newLinesWithNumber,
                                   oldLinesWithNumber |-> oldLinesWithNumber])
  /\ fi' = fi + 1
  /\ pcA' = "files"
  /\ UNCHANGED <<reviewVars, appVars, guardVars>>
  /\ UNCHANGED <<diffFiles, hunks, hi, pos, oldLineNumber, newLineNumber, temp,
                 maxHeadLength, oldLines, newLines, newDiffParts, oldLinesWithNumber,
                 newLinesWithNumber, annotated, extendedContent>>

\* addLineNumbers returns the mapped files.
ReturnFiles ==
  /\ pcA = "files"
  /\ fi > Len(diffFiles)
  /\ pcA' = "done"
  /\ UNCHANGED <<reviewVars, appVars, guardVars>>
  /\ UNCHANGED <<diffFiles, fi, hunks, hi, pos, oldLineNumber, newLineNumber, temp,
                 maxHeadLength, oldLines, newLines, newDiffParts, oldLinesWithNumber,
                 newLinesWithNumber, outFiles, annotated,
                 extendedContent>>

(* ---------------------- buildExtendedDiffContent ---------------------- *)

\* mrEvent.title, the commit message of the document: <<>> is undefined or
\* the empty string, which `commitMessage || ''` both turn into ''.
Titles == {<<>>, <<"t">>}

CommitMessageLabel ==
  <<"c", "o", "m", "m", "i", "t", " ", "m", "e", "s", "s", "a", "g", "e", ":", " ">>
NewPathLabel ==
  <<"#", "#", " ", "n", "e", "w", "_", "p", "a", "t", "h", ":", " ">>
OldPathLabel ==
  <<"#", "#", " ", "o", "l", "d", "_", "p", "a", "t", "h", ":", " ">>

\* new_path and old_path of the k-th file.
newPath(k) == <<"n">> \o ToDigits(k)
oldPath(k) == <<"o">> \o ToDigits(k)

\* `cur.extendedDiff || cur.diff`: the empty string is falsy.
RawDiffOnly(cur) == cur.diff
diffContent(cur) == IF cur.extendedDiff # <<>> THEN cur.extendedDiff ELSE cur.diff

\* What the reduce callback appends for the k-th file.
FileBlock(k, cur) ==
  NewPathLabel \o newPath(k) \o <<LF>> \o OldPathLabel \o oldPath(k) \o <<LF>>
    \o diffContent(cur) \o <<LF, LF>>

buildExtendedDiffContent(commitMessage, files) ==
  CommitMessageLabel \o commitMessage \o <<LF, LF>>
    \o Flatten([k \in 1..Len(files) |-> FileBlock(k, files[k])])

\* getMergeRequestDiffFiltered builds the document from the annotated files.
BuildExtendedDiffContent ==
  /\ pcA = "done"
  /\ \E title \in Titles :
       extendedContent' = <<buildExtendedDiffContent(title, outFiles)>>
  /\ pcA' = "built"
  /\ UNCHANGED <<reviewVars, appVars, guardVars>>
  /\ UNCHANGED <<diffFiles, fi, hunks, hi, pos, oldLineNumber, newLineNumber, temp,
                 maxHeadLength, oldLines, newLines, newDiffParts, oldLinesWithNumber,
                 newLinesWithNumber, outFiles, annotated>>

AnnotNext ==
  \/ StartFile
  \/ StartHunk
  \/ RemovedLine
  \/ AddedLine
  \/ ContextLine
  \/ FinishHunk
  \/ FinishFile
  \/ ReturnFiles
  \/ BuildExtendedDiffContent

AnnotSpec == AnnotInit /\ [][AnnotNext]_vars

\* splitIntoBatches on its own, over every list and every batch size.
SplitInit ==
  /\ AnnotIdle
  /\ AppIdle
  /\ serviceUrl = TRUE
  /\ maxFilesPerReview \in MaxFilesValues
  /\ \E L \in 0..MaxFiles : changes \in [1..L -> 1..2]
  /\ pc = "split"
  /\ shouldBatch = TRUE
  /\ i = 0
  /\ batches = <<>>
  /\ bi = 0
  /\ batchResults = <<>>
  /\ inFlight = {}
  /\ calls = <<>>
  /\ outcomes = <<>>
  /\ mergeCalls = 0
  /\ result = <<>>
  /\ error = None

SplitNext == SplitStep \/ SplitDone

SplitSpec == SplitInit /\ [][SplitNext]_vars

\* mergeReviewResults on its own, over every short list of the results
\* parseAIResponse gives: a score from 1 to 10, a summary that is not
\* empty, and file reviews whose paths may repeat from one result to another.
PartialScores == {6, 9, 10}
PartialSummaries == {<<"o", "k">>, DefaultSummary}
PartialFindings == {<<>>, <<ReviewOf(1)>>, <<ReviewOf(1), ReviewOf(2)>>}
PartialResults ==
  [score : {sc * ScoreScale : sc \in PartialScores}, summary : PartialSummaries,
   fileReviews : PartialFindings]

MergeInit ==
  /\ AnnotIdle
  /\ AppIdle
  /\ serviceUrl = TRUE
  /\ maxFilesPerReview = 1
  /\ \E n \in 0..MaxResults :
       /\ batchResults \in [1..n -> PartialResults]
       /\ changes = [k \in 1..n |-> k]
       /\ batches = [k \in 1..n |-> <<k>>]
       /\ bi = n
       /\ i = n
  /\ pc = "loop"
  /\ shouldBatch = TRUE
  /\ inFlight = {}
  /\ calls = <<>>
  /\ outcomes = <<>>
  /\ mergeCalls = 0
  /\ result = <<>>
  /\ error = None

MergeNext == MergeAndReturn

MergeSpec == MergeInit /\ [][MergeNext]_vars

(* ------------- ConfigService and processMergeRequest ------------------ *)

\* The errors validate() collects.
ValidationErrors(aiUrl, baseUrl, webhookToken) ==
  (IF ~aiUrl THEN {"AI_SERVICE_URL is required"} ELSE {})
    \cup (IF ~baseUrl THEN {"GITLAB_BASE_URL is required"} ELSE {})
    \cup (IF ~webhookToken THEN {"GITLAB_WEBHOOK_TOKEN is required"} ELSE {})

\* The errors of getMergeRequestDiffFiltered and of the DingTalk request.
GitlabError == "gitlab"
DingTalkError == "dingtalk"

\* The application before onModuleInit, with the environment it was
\* started in; no event has come and no review has started.
AppInit ==
  /\ AnnotIdle
  /\ GuardIdle
  /\ serviceUrl \in BOOLEAN
  /\ gitlabBaseUrl \in BOOLEAN
  /\ gitlabWebhookToken \in BOOLEAN
  /\ maxFilesPerReview \in MaxFilesValues
  /\ pcM = "boot"
  /\ pushUrl = FALSE
  /\ caught = None
  /\ notified = <<>>
  /\ thrown = <<>>
  /\ changes = <<>>
  /\ pc = "off"
  /\ shouldBatch = FALSE
  /\ i = 0
  /\ batches = <<>>
  /\ bi = 0
  /\ batchResults = <<>>
  /\ inFlight = {}
  /\ calls = <<>>
  /\ outcomes = <<>>
  /\ mergeCalls = 0
  /\ result = <<>>
  /\ error = None

\* onModuleInit: validate() throws when it has collected an error, and the
\* application does not start.
OnModuleInit ==
  /\ pcM = "boot"
  /\ pcM' = IF ValidationErrors(serviceUrl, gitlabBaseUrl, gitlabWebhookToken) # {}
            THEN "invalid" ELSE "ready"
  /\ UNCHANGED <<reviewVars, annotVars, guardVars>>
  /\ UNCHANGED <<gitlabBaseUrl, gitlabWebhookToken, pushUrl, caught, notified, thrown>>

\* processMergeRequest is entered for an event and awaits
\* getMergeRequestDiffFiltered.
ProcessMergeRequest ==
  /\ pcM = "ready"
  /\ pushUrl' \in BOOLEAN
  /\ pcM' = "diff"
  /\ UNCHANGED <<reviewVars, annotVars, guardVars>>
  /\ UNCHANGED <<gitlabBaseUrl, gitlabWebhookToken, caught, notified, thrown>>

\* getMergeRequestDiffFiltered returns the code files of the MR and
\* reviewMergeRequest is called with them.
DiffReturns ==
  /\ pcM = "diff"
  /\ \E L \in 0..MaxFiles : changes' = [k \in 1..L |-> k]
  /\ pc' = "start"
  /\ pcM' = "review"
  /\ UNCHANGED <<annotVars, guardVars>>
  /\ UNCHANGED <<serviceUrl, maxFilesPerReview, shouldBatch, i, batches, bi, batchResults,
                 inFlight, calls, outcomes, mergeCalls, result, error>>
  /\ UNCHANGED <<gitlabBaseUrl, gitlabWebhookToken, pushUrl, caught, notified, thrown>>

\* getMergeRequestDiffFiltered throws: the catch has its error.
DiffFails ==
  /\ pcM = "diff"
  /\ caught' = GitlabError
  /\ pcM' = "catch"
  /\ UNCHANGED <<reviewVars, annotVars, guardVars>>
  /\ UNCHANGED <<gitlabBaseUrl, gitlabWebhookToken, pushUrl, notified, thrown>>

\* reviewMergeRequest has returned: sendReviewNotification is called with
\* the result.
SendReviewNotification ==
  /\ pcM = "review"
  /\ pc = "returned"
  /\ notified' = Append(notified, [kind |-> "review", payload |-> result])
  /\ pcM' = "sending"
  /\ UNCHANGED <<reviewVars, annotVars, guardVars>>
  /\ UNCHANGED <<gitlabBaseUrl, gitlabWebhookToken, pushUrl, caught, thrown>>

\* reviewMergeRequest has thrown: the catch has its error.
ReviewThrows ==
  /\ pcM = "review"
  /\ pc = "rejected"
  /\ caught' = error
  /\ pcM' = "catch"
  /\ UNCHANGED <<reviewVars, annotVars, guardVars>>
  /\ UNCHANGED <<gitlabBaseUrl, gitlabWebhookToken, pushUrl, notified, thrown>>

\* sendReviewNotification returns (the message was sent, or there is no
\* pushUrl and it was skipped) and processMergeRequest returns.
ReviewNotificationReturns ==
  /\ pcM = "sending"
  /\ pcM' = "resolved"
  /\ UNCHANGED <<reviewVars, annotVars, guardVars>>
  /\ UNCHANGED <<gitlabBaseUrl, gitlabWebhookToken, pushUrl, caught, notified, thrown>>

\* sendDingTalkNotification throws, inside the try of processMergeRequest.
ReviewNotificationThrows ==
  /\ pcM = "sending"
  /\ pushUrl
  /\ caught' = DingTalkError
  /\ pcM' = "catch"
  /\ UNCHANGED <<reviewVars, annotVars, guardVars>>
  /\ UNCHANGED <<gitlabBaseUrl, gitlabWebhookToken, pushUrl, notified, thrown>>

\* The catch of processMergeRequest calls sendFailureNotification with the
\* message of the error.
SendFailureNotification ==
  /\ pcM = "catch"
  /\ notified' = Append(notified, [kind |-> "failure", payload |-> <<caught>>])
  /\ pcM' = "failing"
  /\ UNCHANGED <<reviewVars, annotVars, guardVars>>
  /\ UNCHANGED <<gitlabBaseUrl, gitlabWebhookToken, pushUrl, caught, thrown>>

\* sendFailureNotification returns and the catch throws the error it caught.
FailureNotificationReturns ==
  /\ pcM = "failing"
  /\ thrown' = <<caught>>
  /\ pcM' = "threw"
  /\ UNCHANGED <<reviewVars, annotVars, guardVars>>
  /\ UNCHANGED <<gitlabBaseUrl, gitlabWebhookToken, pushUrl, caught, notified>>

\* sendDingTalkFailureNotification throws, inside the catch: its error
\* leaves processMergeRequest.
FailureNotificationThrows ==
  /\ pcM = "failing"
  /\ pushUrl
  /\ thrown' = <<DingTalkError>>
  /\ pcM' = "threw"
  /\ UNCHANGED <<reviewVars, annotVars, guardVars>>
  /\ UNCHANGED <<gitlabBaseUrl, gitlabWebhookToken, pushUrl, caught, notified>>

AppNext ==
  \/ OnModuleInit
  \/ ProcessMergeRequest
  \/ DiffReturns
  \/ DiffFails
  \/ Next
  \/ SendReviewNotification
  \/ ReviewThrows
  \/ ReviewNotificationReturns
  \/ ReviewNotificationThrows
  \/ SendFailureNotification
  \/ FailureNotificationReturns
  \/ FailureNotificationThrows

AppSpec == AppInit /\ [][AppNext]_vars

\* buildExtendedDiffContent on its own, over every short list of files with
\* any diff and any extendedDiff, the empty one included.
DocDiffs == {<<>>, RemovedLineText, JoinLines(<<HeaderLine, AddedLineText>>)}
DocExtendedDiffs == {<<>>, JoinLines(<<HeaderLine, <<"x">> >>)}
DocFiles ==
  [diff : DocDiffs, extendedDiff : DocExtendedDiffs,
   newLinesWithNumber : {<<>>}, oldLinesWithNumber : {<<>>}]

DocInit ==
  /\ ReviewIdle
  /\ AppIdle
  /\ \E n \in 0..MaxDocFiles : outFiles \in [1..n -> DocFiles]
  /\ diffFiles = [k \in 1..Len(outFiles) |-> outFiles[k].diff]
  /\ pcA = "done"
  /\ fi = Len(outFiles) + 1
  /\ hunks = <<>>
  /\ hi = 0
  /\ pos = 0
  /\ oldLineNumber = 0
  /\ newLineNumber = 0
  /\ temp = <<>>
  /\ maxHeadLength = 0
  /\ oldLines = <<>>
  /\ newLines = <<>>
  /\ newDiffParts = <<>>
  /\ oldLinesWithNumber = <<>>
  /\ newLinesWithNumber = <<>>
  /\ annotated = <<>>
  /\ extendedContent = <<>>

DocNext == BuildExtendedDiffContent

DocSpec == DocInit /\ [][DocNext]_vars

(* ----------------------------- WebhookGuard --------------------------- *)

\* The values of GITLAB_WEBHOOK_TOKEN and of the x-gitlab-token header: <<>>
\* is the empty string or a header that is absent, both falsy.
ConfiguredTokens == {<<>>, <<"s", "1">>}
HeaderTokens == {<<>>, <<"s", "1">>, <<"s", "2">>}

NotConfigured == "token not configured"
MissingToken == "Missing webhook token"
InvalidToken == "Invalid webhook token"
Activated == "activated"

\* (A guard that asks for a token but does not compare it.)
AnyTokenPasses(expected, token) ==
  IF expected = <<>> THEN NotConfigured
  ELSE IF token = <<>> THEN MissingToken
  ELSE Activated
\* canActivate: the message of the UnauthorizedException it throws, or
\* Activated when it returns true.
canActivate(expected, token) ==
  IF expected = <<>> THEN NotConfigured
  ELSE IF token = <<>> THEN MissingToken
  ELSE IF token # expected THEN InvalidToken
  ELSE Activated

\* The application with its token configured or not; no request has come.
GuardInit ==
  /\ AnnotIdle
  /\ ReviewIdle
  /\ gitlabBaseUrl = TRUE
  /\ expectedToken \in ConfiguredTokens
  /\ gitlabWebhookToken = (expectedToken # <<>>)
  /\ pcM = "off"
  /\ pushUrl = FALSE
  /\ caught = None
  /\ notified = <<>>
  /\ thrown = <<>>
  /\ request = <<>>
  /\ pcG = "wait"
  /\ served = <<>>
  /\ notices = <<>>

\* A request comes to POST /webhook/trigger with its headers.
Arrive ==
  /\ pcG = "wait"
  /\ Len(served) < MaxRequests
  /\ \E token \in HeaderTokens, url \in BOOLEAN :
       request' = <<[token |-> token, pushUrl |-> url]>>
  /\ pcG' = "guard"
  /\ UNCHANGED <<reviewVars, annotVars, appVars>>
  /\ UNCHANGED <<expectedToken, served, notices>>

\* canActivate runs: it returns true and the handler is next, or it starts
\* the error notification (when there is a push URL), does not wait for it
\* and throws the UnauthorizedException.
CanActivate ==
  /\ pcG = "guard"
  /\ LET verdict == canActivate(expectedToken, request[1].token) IN
       IF verdict = Activated
       THEN /\ pcG' = "handler"
            /\ UNCHANGED <<request, served, notices>>
       ELSE /\ notices' = IF request[1].pushUrl
                          THEN Append(notices, [request |-> Len(served) + 1,
                                                state |-> "pending"])
                          ELSE notices
            /\ served' = Append(served, [token |-> request[1].token,
                                         outcome |-> "unauthorized",
                                         message |-> verdict])
            /\ request' = <<>>
            /\ pcG' = "wait"
  /\ UNCHANGED <<reviewVars, annotVars, appVars>>
  /\ UNCHANGED expectedToken

\* handleTrigger runs for the request the guard let through.
HandleTrigger ==
  /\ pcG = "handler"
  /\ served' = Append(served, [token |-> request[1].token,
                               outcome |-> "handled",
                               message |-> Activated])
  /\ request' = <<>>
  /\ pcG' = "wait"
  /\ UNCHANGED <<reviewVars, annotVars, appVars>>
  /\ UNCHANGED <<expectedToken, notices>>

\* sendGenericErrorNotification resolves.
NoticeSent ==
  /\ \E k \in 1..Len(notices) :
       /\ notices[k].state = "pending"
       /\ notices' = [notices EXCEPT ![k].state = "sent"]
  /\ UNCHANGED <<reviewVars, annotVars, appVars>>
  /\ UNCHANGED <<expectedToken, request, pcG, served>>

\* sendGenericErrorNotification rejects: the catch of sendErrorNotification
\* logs it.
NoticeFails ==
  /\ \E k \in 1..Len(notices) :
       /\ notices[k].state = "pending"
       /\ notices' = [notices EXCEPT ![k].state = "failed"]
  /\ UNCHANGED <<reviewVars, annotVars, appVars>>
  /\ UNCHANGED <<expectedToken, request, pcG, served>>

GuardNext ==
  \/ Arrive
  \/ CanActivate
  \/ HandleTrigger
  \/ NoticeSent
  \/ NoticeFails

GuardSpec == GuardInit /\ [][GuardNext]_vars

(* ------------------------------ claims -------------------------------- *)

CeilDiv(a, b) == (a + b - 1) \div b

Completed(c) == c \in 1..Len(outcomes) /\ outcomes[c] # None
Failed(c) == c \in 1..Len(outcomes) /\ outcomes[c] \in Errors

C2_FailureAbortsReview ==
  \A k \in 1..Len(calls) :
    Failed(k) =>
      /\ Len(calls) = k
      /\ mergeCalls = 0
      /\ result = <<>>
      /\ pc = "rejected"
      /\ error = outcomes[k]
C2_Witness ==
  /\ shouldBatch
  /\ Len(calls) = 2
  /\ Len(calls) < Len(batches)
  /\ Failed(2)
  /\ Len(batchResults) = 1
  /\ error = "timeout"

\* C3: for a batch size B > 0, splitIntoBatches gives ceil(L/B) batches, all
\* of B files but the last, which has from 1 to B, and the batches
\* concatenated in order are the list.
C3_SplitIntoBatches ==
  (pc = "loop" /\ maxFilesPerReview > 0) =>
    LET L == Len(changes)
        B == maxFilesPerReview
        n == Len(batches)
    IN  /\ n = CeilDiv(L, B)
        /\ \A k \in 1..n :
             /\ k < n => Len(batches[k]) = B
             /\ k = n => Len(batches[k]) \in 1..B
        /\ Flatten(batches) = changes
C3_Witness ==
  /\ pc = "loop"
  /\ maxFilesPerReview = 2
  /\ Len(changes) = 3
  /\ changes[1] # changes[2]
  /\ Len(batches) = 2

\* C4: a change list of at most maxFilesPerReview files is reviewed by one
\* call over the whole list whose result is returned as it is, and
\* mergeReviewResults is invoked only when there is more than one batch.
C4_SingleUnit ==
  /\ (Len(changes) <= maxFilesPerReview /\ pc = "returned") =>
       /\ Len(calls) = 1
       /\ calls[1] = changes
       /\ mergeCalls = 0
  /\ mergeCalls > 0 => Len(batches) > 1
\* The first clause of C4 alone: at most maxFilesPerReview files are
\* reviewed by one call over the whole list, with no merge.
C4_SingleCallPart ==
  (Len(changes) <= maxFilesPerReview /\ pc = "returned") =>
     /\ Len(calls) = 1
     /\ calls[1] = changes
     /\ mergeCalls = 0

\* C5: when L > B > 0 and no call fails, ceil(L/B) calls are made, the i-th
\* over the files of the i-th batch only, so that the calls together cover
\* every file once.
C5_OneCallPerBatch ==
  (pc = "returned" /\ shouldBatch /\ maxFilesPerReview > 0) =>
    LET L == Len(changes)
        B == maxFilesPerReview
    IN  /\ Len(calls) = CeilDiv(L, B)
        /\ \A k \in 1..Len(calls) :
             calls[k] = SubSeq(changes, (k - 1) * B + 1, Min(k * B, L))
        /\ Flatten(calls) = changes
C5_Witness ==
  /\ pc = "returned"
  /\ shouldBatch
  /\ maxFilesPerReview = 3
  /\ Len(changes) = 4
  /\ Len(calls) = 2
  /\ Len(calls[2]) = 1

\* C6: a batch whose response cannot be parsed raises no error: its result
\* has the score 7 and one "manual review required" finding for each file
\* of the batch, in order, and the later batches are still reviewed.
C6_UnparsableBatch ==
  shouldBatch =>
    /\ \A k \in 1..Len(outcomes) :
         outcomes[k] = "text" =>
           /\ k <= Len(batchResults)
           /\ batchResults[k].score = DefaultScore * ScoreScale
           /\ Len(batchResults[k].fileReviews) = Len(batches[k])
           /\ \A f \in 1..Len(batches[k]) :
                /\ batchResults[k].fileReviews[f].filePath = batches[k][f]
                /\ batchResults[k].fileReviews[f].comments = <<ManualReviewComment>>
    /\ (\A k \in 1..Len(outcomes) : ~Failed(k)) =>
         /\ error = None
         /\ pc = "returned" => Len(calls) = Len(batches)
C6_Witness ==
  /\ pc = "returned"
  /\ shouldBatch
  /\ Len(calls) = 2
  /\ outcomes[1] = "text"
  /\ outcomes[2] = "json"
  /\ Len(batches[1]) = 2


\* The removed-or-context and the added-or-context lines of the body of a
\* hunk (all its lines but the first) before the place p.
OldLine(line) == startsWith(line, <<"-">>) \/ ~startsWith(line, <<"+">>)
NewLine(line) == ~startsWith(line, <<"-">>)
OldCount(hunk, p) == Cardinality({k \in 2..(p - 1) : OldLine(hunk.hunkLines[k])})
NewCount(hunk, p) == Cardinality({k \in 2..(p - 1) : NewLine(hunk.hunkLines[k])})

\* A table after a step is the table before it with `line` at `key`.
SetIn(before, after, key, line) ==
  /\ DOMAIN after = (DOMAIN before) \cup {key}
  /\ after[key] = line
  /\ \A k \in (DOMAIN before) \ {key} : after[k] = before[k]

\* C7: computeHunkWithLineNumbers takes the body lines in order, each as
\* one of removed, added and context: a '-' line is set in the old table
\* at the old counter and advances the old counter only, a '+' line is set
\* in the new table at the new counter and advances the new counter only,
\* any other line is set in both and advances both.
C7_LineClasses ==
  [][AtLine =>
       /\ pcA' = "lines" /\ hi' = hi /\ hunks' = hunks /\ pos' = pos + 1
       /\ startsWith(Line, <<"-">>) =>
            /\ SetIn(oldLines, oldLines', oldLineNumber, Line)
            /\ newLines' = newLines
            /\ oldLineNumber' = oldLineNumber + 1
            /\ newLineNumber' = newLineNumber
       /\ startsWith(Line, <<"+">>) =>
            /\ SetIn(newLines, newLines', newLineNumber, Line)
            /\ oldLines' = oldLines
            /\ newLineNumber' = newLineNumber + 1
            /\ oldLineNumber' = oldLineNumber
       /\ (~startsWith(Line, <<"-">>) /\ ~startsWith(Line, <<"+">>)) =>
            /\ SetIn(oldLines, oldLines', oldLineNumber, Line)
            /\ SetIn(newLines, newLines', newLineNumber, Line)
            /\ oldLineNumber' = oldLineNumber + 1
            /\ newLineNumber' = newLineNumber + 1]_vars
C7_Witness ==
  /\ pcA = "lines"
  /\ pos = 5
  /\ hunks[hi].hunkLines =
       <<HeaderLine, RemovedLineText, AddedLineText, ContextLineText>>
  /\ DOMAIN oldLines = {1, 2}
  /\ DOMAIN newLines = {1, 2}

\* C8: after any prefix of the body of a hunk the old counter is oldStart
\* plus the removed and context lines of the prefix and the new counter is
\* newStart plus its added and context lines; the example hunk ends with
\* the old counter 3 and the new counter 4.
C8_Counters ==
  pcA = "lines" =>
    /\ oldLineNumber = hunks[hi].oldStart + OldCount(hunks[hi], pos)
    /\ newLineNumber = hunks[hi].newStart + NewCount(hunks[hi], pos)
    /\ (hunks[hi].hunkLines = SplitLines(ExampleDiff) /\ pos > Len(hunks[hi].hunkLines)) =>
         (oldLineNumber = 3 /\ newLineNumber = 4)
C8_Witness ==
  /\ pcA = "lines"
  /\ hunks[hi].hunkLines = SplitLines(ExampleDiff)
  /\ hunks[hi].oldStart = 1
  /\ pos > Len(hunks[hi].hunkLines)
  /\ oldLineNumber = 3
  /\ newLineNumber = 4

\* C9: the old table of a hunk has as many entries as the hunk has removed
\* or context lines, the new table as many as it has added or context lines.
C9_TableSizes ==
  \A a \in 1..Len(annotated) :
    LET h == annotated[a].hunk IN
    /\ Cardinality(DOMAIN annotated[a].oldLines)
         = OldCount(h, Len(h.hunkLines) + 1)
    /\ Cardinality(DOMAIN annotated[a].newLines)
         = NewCount(h, Len(h.hunkLines) + 1)
C9_Witness ==
  \E a \in 1..Len(annotated) :
    /\ annotated[a].hunk.hunkLines =
         <<HeaderLine, AddedLineText, ContextLineText, RemovedLineText>>
    /\ Cardinality(DOMAIN annotated[a].oldLines) = 2
    /\ Cardinality(DOMAIN annotated[a].newLines) = 2

\* C10: a hunk annotated twice, or after other hunks or files, gives the
\* same tables and the same rendered lines, and the counters of a hunk
\* start from its own oldStart and newStart.
C10_NoCarriedCounters ==
  /\ \A a, b \in 1..Len(annotated) :
       annotated[a].hunk = annotated[b].hunk => annotated[a] = annotated[b]
  /\ (pcA = "lines" /\ pos = 2) =>
       (oldLineNumber = hunks[hi].oldStart /\ newLineNumber = hunks[hi].newStart)
C10_Witness ==
  /\ Len(outFiles) = 2
  /\ Len(annotated) = 2
  /\ annotated[1].hunk = annotated[2].hunk
  /\ Len(annotated[1].hunk.hunkLines) = 5
  /\ annotated[2].oldLines = annotated[1].oldLines
  /\ DOMAIN annotated[2].newLines = {1, 2, 3}

\* The hunk header lines of a diff, and the lines from the first of them on.
IsHeader(line) == startsWith(line, <<"@", "@">>)
HasHeader(diff) == \E k \in 1..Len(SplitLines(diff)) : IsHeader(SplitLines(diff)[k])
FirstHeader(lines) ==
  IF \E k \in 1..Len(lines) : IsHeader(lines[k])
  THEN CHOOSE k \in 1..Len(lines) :
         IsHeader(lines[k]) /\ \A j \in 1..(k - 1) : ~IsHeader(lines[j])
  ELSE Len(lines) + 1
FromFirstHeader(diff) ==
  SubSeq(SplitLines(diff), FirstHeader(SplitLines(diff)), Len(SplitLines(diff)))
HunkLinesOf(hs) == Flatten([k \in 1..Len(hs) |-> hs[k].hunkLines])

\* C11: the lines of a diff before its first hunk header are in no hunk
\* splitHunk emits, get no line number and are neither in the extendedDiff
\* of the file nor in its old and new tables.
C11_PreambleDiscarded ==
  /\ (pcA \in {"hunks", "lines"} /\ HasHeader(diffFiles[fi])) =>
       HunkLinesOf(hunks) = FromFirstHeader(diffFiles[fi])
  /\ \A f \in 1..Len(outFiles) :
       LET kept == FromFirstHeader(outFiles[f].diff) IN
       HasHeader(outFiles[f].diff) =>
       /\ Len(SplitLines(outFiles[f].extendedDiff)) <= Max(1, Len(kept))
       /\ \A k \in DOMAIN outFiles[f].oldLinesWithNumber :
            \E j \in 2..Len(kept) : kept[j] = outFiles[f].oldLinesWithNumber[k]
       /\ \A k \in DOMAIN outFiles[f].newLinesWithNumber :
            \E j \in 2..Len(kept) : kept[j] = outFiles[f].newLinesWithNumber[k]

\* C12: for a diff with no hunk header line, the empty text included,
\* splitHunk returns no hunk.
C12_NoHeaderNoHunks ==
  (pcA = "hunks" /\ ~HasHeader(diffFiles[fi])) => hunks = <<>>

\* The block of the document of a file whose diff is taken as it is.
RawBlock(k, cur) ==
  NewPathLabel \o newPath(k) \o <<LF>> \o OldPathLabel \o oldPath(k) \o <<LF>>
    \o cur.diff \o <<LF, LF>>

\* C13: a file whose diff has no hunk header has an empty extendedDiff and
\* empty tables, and its block of the document holds its raw diff text,
\* with no line number added.
C13_NoHeaderPassThrough ==
  /\ \A f \in 1..Len(outFiles) :
       ~HasHeader(outFiles[f].diff) =>
         /\ outFiles[f].extendedDiff = <<>>
         /\ DOMAIN outFiles[f].oldLinesWithNumber = {}
         /\ DOMAIN outFiles[f].newLinesWithNumber = {}
  /\ pcA = "built" =>
       \E title \in Titles :
         extendedContent[1] =
           CommitMessageLabel \o title \o <<LF, LF>>
             \o Flatten([k \in 1..Len(outFiles) |->
                           IF HasHeader(outFiles[k].diff) THEN FileBlock(k, outFiles[k])
                           ELSE RawBlock(k, outFiles[k])])

\* C14: a header the numeric pattern does not match raises no error: its
\* hunk is emitted with oldStart = newStart = 0, a context line right after
\* it is set at key 0 in the old and in the new table of the hunk, and the
\* hunks after it in the file are still split and annotated.
C14_MalformedHeader ==
  /\ \A a \in 1..Len(annotated) :
       LET h == annotated[a].hunk IN
       (IsHeader(h.hunkLines[1]) /\ HeaderMatch(h.hunkLines[1]) = <<>>) =>
         /\ h.oldStart = 0
         /\ h.newStart = 0
         /\ (Len(h.hunkLines) >= 2 /\ IsContext(h.hunkLines[2])) =>
              /\ 0 \in DOMAIN annotated[a].oldLines
              /\ 0 \in DOMAIN annotated[a].newLines
              /\ annotated[a].oldLines[0] = h.hunkLines[2]
              /\ annotated[a].newLines[0] = h.hunkLines[2]
  /\ (pcA = "hunks" /\ hi = 1) =>
       /\ HunkLinesOf(hunks) = SplitLines(diffFiles[fi])
       /\ \A k \in 2..Len(hunks) :
            /\ IsHeader(hunks[k].hunkLines[1])
            /\ HeaderMatch(hunks[k].hunkLines[1]) # <<>> =>
                 /\ hunks[k].oldStart = parseInt(HeaderMatch(hunks[k].hunkLines[1])[1])
                 /\ hunks[k].newStart = parseInt(HeaderMatch(hunks[k].hunkLines[1])[2])
  /\ (pcA = "hunks" /\ hi > Len(hunks)) =>
       /\ Len(annotated) >= Len(hunks)
       /\ \A k \in 1..Len(hunks) :
            annotated[Len(annotated) - Len(hunks) + k].hunk = hunks[k]
C14_Witness ==
  /\ pcA = "done"
  /\ Len(annotated) = 2
  /\ annotated[1].hunk.hunkLines = <<GarbageHeader, ContextLineText>>
  /\ annotated[1].oldLines[0] = ContextLineText
  /\ annotated[1].newLines[0] = ContextLineText
  /\ annotated[2].hunk.hunkLines = <<HeaderLine, AddedLineText>>
  /\ annotated[2].hunk.newStart = 1
  /\ DOMAIN annotated[2].newLines = {1}
  /\ Len(SplitLines(outFiles[1].extendedDiff)) = 4

\* C15: a maxFilesPerReview of 0 or less is rejected by the validation of
\* the configuration: the application never gets past onModuleInit with
\* it, so it is neither taken as "no splitting" (one call over the whole
\* list) nor handed to splitIntoBatches.
C15_BatchSizeValidated ==
  maxFilesPerReview <= 0 =>
    /\ pcM \in {"boot", "invalid"}
    /\ pc \notin {"split", "single"}
    /\ calls = <<>>

\* The calls of the notification service of one kind.
Handed(kind) == {k \in 1..Len(notified) : notified[k].kind = kind}

\* C20: for an event the notification service is handed the result of the
\* review or an error message, never both, exactly one of them once the
\* event is processed, and no result when the review ended in an error.
C20_OneNotification ==
  /\ Cardinality(Handed("review")) + Cardinality(Handed("failure")) <= 1
  /\ pcM \in {"resolved", "threw"} => Len(notified) = 1
  /\ pc = "rejected" => Handed("review") = {}

\* mergeReviewResults has returned its value for the results in batchResults.
Merged(n) == pc = "returned" /\ mergeCalls = 1 /\ Len(batchResults) = n
ManyMerged == pc = "returned" /\ mergeCalls = 1 /\ Len(batchResults) >= 2

\* C16: mergeReviewResults of exactly one result returns that result as it
\* is: the same score, the same summary with nothing put before it, the
\* same findings in the same order.
C16_OneResultUnchanged ==
  Merged(1) =>
    /\ result[1].score = batchResults[1].score
    /\ result[1].summary = batchResults[1].summary
    /\ result[1].fileReviews = batchResults[1].fileReviews
C16_Witness ==
  /\ Merged(1)
  /\ result[1].score = 9 * ScoreScale
  /\ result[1].summary = <<"o", "k">>
  /\ Len(result[1].fileReviews) = 2

\* C17: for two or more results the merged score is the mean of the scores
\* rounded to one decimal place (6 and 9 give 7.5), for any number of
\* results in any order.
C17_MeanScore ==
  ManyMerged =>
    LET n == Len(batchResults)
        sum == SumSeq([k \in 1..n |-> batchResults[k].score])
        m == result[1].score
    IN  /\ 2 * n * m <= 2 * sum + n
        /\ 2 * sum + n < 2 * n * m + 2 * n
        /\ (n = 2 /\ {batchResults[1].score, batchResults[2].score}
                       = {6 * ScoreScale, 9 * ScoreScale}) => m = 75
C17_Witness ==
  /\ Merged(3)
  /\ batchResults[1].score = 10 * ScoreScale
  /\ batchResults[2].score = 9 * ScoreScale
  /\ batchResults[3].score = 10 * ScoreScale
  /\ result[1].score = 97

\* The findings of the results before the k-th.
RECURSIVE FindingsBefore(_, _)
FindingsBefore(rs, k) ==
  IF k <= 1 THEN 0 ELSE FindingsBefore(rs, k - 1) + Len(rs[k - 1].fileReviews)

\* C18: for two or more results the merged findings are the findings of
\* the results in batch order, each result's in its own order: none is
\* dropped or merged with another of the same path, and there are as many
\* as the results have together.
C18_FindingsConcatenated ==
  ManyMerged =>
    LET n == Len(batchResults)
        all == result[1].fileReviews
    IN  /\ Len(all) = FindingsBefore(batchResults, n + 1)
        /\ \A k \in 1..n : \A f \in 1..Len(batchResults[k].fileReviews) :
             all[FindingsBefore(batchResults, k) + f] = batchResults[k].fileReviews[f]
C18_Witness ==
  /\ Merged(2)
  /\ Len(batchResults[1].fileReviews) = 2
  /\ Len(batchResults[2].fileReviews) = 1
  /\ batchResults[2].fileReviews[1].filePath = batchResults[1].fileReviews[1].filePath
  /\ Len(result[1].fileReviews) = 3
  /\ result[1].fileReviews[3] = result[1].fileReviews[1]

\* `text` is the summaries ss, each after a label of its own that is not
\* empty and is none of `used`, with a blank line between one summary and
\* the label of the next.
RECURSIVE LabelledFrom(_, _, _)
LabelledFrom(text, ss, used) ==
  IF ss = <<>> THEN text = <<>>
  ELSE \E p \in 1..(Len(text) - Len(Head(ss))) :
         LET label == SubSeq(text, 1, p)
             after == SubSeq(text, p + 1, Len(text))
             rest == SubSeq(after, Len(Head(ss)) + 1, Len(after))
         IN  /\ label \notin used
             /\ startsWith(after, Head(ss))
             /\ IF Len(ss) = 1 THEN rest = <<>>
                ELSE /\ startsWith(rest, <<LF, LF>>)
                     /\ LabelledFrom(SubSeq(rest, 3, Len(rest)), Tail(ss),
                                     used \cup {label})

\* C19 as it was claimed: for two or more results the merged summary holds
\* every summary, in batch order, each with a label of its own batch, with
\* a blank line between consecutive summaries.
C19_LabelledSummaries ==
  ManyMerged =>
    LabelledFrom(result[1].summary,
                 [k \in 1..Len(batchResults) |-> batchResults[k].summary], {})

\* Where the k-th summary starts in the merged summary: after the heading
\* and the earlier summaries with their blank lines.
RECURSIVE SummaryStart(_, _)
SummaryStart(rs, k) ==
  IF k <= 1 THEN Len(MergedPrefix)
  ELSE SummaryStart(rs, k - 1) + Len(rs[k - 1].summary) + 2

\* C19, amended: for two or more results the merged summary is one heading
\* line followed by every summary, in batch order, with a blank line
\* between consecutive summaries and no label for a batch.
C19_HeadingAndSummaries ==
  ManyMerged =>
    LET n == Len(batchResults)
        m == result[1].summary
    IN  /\ Len(m) = SummaryStart(batchResults, n) + Len(batchResults[n].summary)
        /\ SubSeq(m, 1, Len(MergedPrefix)) = MergedPrefix
        /\ \A k \in 1..n :
             LET from == SummaryStart(batchResults, k)
                 to == from + Len(batchResults[k].summary)
             IN  /\ SubSeq(m, from + 1, to) = batchResults[k].summary
                 /\ k < n => (m[to + 1] = LF /\ m[to + 2] = LF)
C19_Witness ==
  /\ Merged(3)
  /\ batchResults[1].summary = <<"o", "k">>
  /\ batchResults[2].summary = DefaultSummary
  /\ batchResults[3].summary = <<"o", "k">>
  /\ result[1].summary =
       MergedPrefix \o <<"o", "k", LF, LF>> \o DefaultSummary \o <<LF, LF, "o", "k">>

\* The reviewer calls made with the prompt of the call c.
Attempts(c) == Cardinality({k \in 1..Len(calls) : calls[k] = calls[c]})
MaxRetries == 3

\* C21: a failed reviewer call is retried, at most 3 times, before the
\* review is reported as failed: when reviewMergeRequest rejects with the
\* error of a call, that call's prompt was sent again at least once and at
\* most 1 + 3 times in all.
C21_RetriedBeforeFailure ==
  \A c \in 1..Len(calls) :
    (Failed(c) /\ pc = "rejected" /\ maxFilesPerReview > 0 /\ changes # <<>>) =>
      (Attempts(c) >= 2 /\ Attempts(c) <= 1 + MaxRetries)

Occurrences(text, pat) ==
  {p \in 1..Len(text) : p + Len(pat) - 1 <= Len(text)
                        /\ SubSeq(text, p, p + Len(pat) - 1) = pat}

\* The block C23 describes for the k-th file.
ExpectedBlock(k, cur) ==
  NewPathLabel \o newPath(k) \o <<LF>> \o OldPathLabel \o oldPath(k) \o <<LF>>
    \o (IF cur.extendedDiff = <<>> THEN cur.diff ELSE cur.extendedDiff) \o <<LF, LF>>

\* C23: the document is the header followed by one block for each file of
\* the list, in the order of the list; a block holds the new path, the old
\* path and the extendedDiff of the file, or its raw diff exactly when the
\* extendedDiff is empty.
C23_OneBlockPerFile ==
  pcA = "built" =>
    LET doc == extendedContent[1] IN
    /\ \E title \in Titles :
         doc = CommitMessageLabel \o title \o <<LF, LF>>
                 \o Flatten([k \in 1..Len(outFiles) |-> ExpectedBlock(k, outFiles[k])])
    /\ Cardinality(Occurrences(doc, NewPathLabel)) = Len(outFiles)
    /\ Cardinality(Occurrences(doc, OldPathLabel)) = Len(outFiles)
    /\ \A j, k \in 1..Len(outFiles) :
         j < k =>
           \A p \in Occurrences(doc, NewPathLabel \o newPath(j) \o <<LF>>),
              q \in Occurrences(doc, NewPathLabel \o newPath(k) \o <<LF>>) : p < q
C23_Witness ==
  /\ pcA = "built"
  /\ Len(outFiles) = 2
  /\ outFiles[1].extendedDiff = <<>>
  /\ outFiles[1].diff = RemovedLineText
  /\ outFiles[2].extendedDiff # <<>>
  /\ outFiles[2].diff = RemovedLineText
  /\ Cardinality(Occurrences(extendedContent[1], <<LF>> \o RemovedLineText \o <<LF>>)) = 1

\* The label of the p-th line of a hunk, from the numbers of the lines
\* before it.
LabelOf(h, p) ==
  LET old == h.oldStart + OldCount(h, p)
      new == h.newStart + NewCount(h, p)
  IN  IF startsWith(h.hunkLines[p], <<"-">>) THEN RemovedHead(old)
      ELSE IF startsWith(h.hunkLines[p], <<"+">>) THEN AddedHead(new)
      ELSE ContextHead(old, new)
\* The length of the longest label of a hunk, 0 when it has no body.
LongestLabel(h) ==
  IF Len(h.hunkLines) < 2 THEN 0
  ELSE LET lens == {Len(LabelOf(h, p)) : p \in 2..Len(h.hunkLines)}
       IN  CHOOSE w \in lens : \A v \in lens : v <= w

\* C24: the rendering of a hunk has one line more than the hunk has body
\* lines: the header as it is, then for each body line its label padded
\* with spaces to the longest label of the hunk, one space, and the line as
\* it is; without its first maxHeadLength + 1 characters a rendered line is
\* the body line.
C24_Rendering ==
  \A a \in 1..Len(annotated) :
    LET h == annotated[a].hunk
        r == annotated[a].formattedHunk
        w == LongestLabel(h)
    IN  /\ Len(r) = (Len(h.hunkLines) - 1) + 1
        /\ r[1] = h.hunkLines[1]
        /\ \A p \in 2..Len(h.hunkLines) :
             /\ Len(r[p]) = w + 1 + Len(h.hunkLines[p])
             /\ TrimRight(SubSeq(r[p], 1, w)) = LabelOf(h, p)
             /\ \A c \in (Len(LabelOf(h, p)) + 1)..w : r[p][c] = " "
             /\ r[p][w + 1] = " "
             /\ SubSeq(r[p], w + 2, Len(r[p])) = h.hunkLines[p]
C24_Witness ==
  \E a \in 1..Len(annotated) :
    /\ annotated[a].hunk.hunkLines =
         <<FarHeaderLine, ContextLineText, RemovedLineText, AddedLineText, ContextLineText>>
    /\ annotated[a].formattedHunk[2] =
         <<"(", "9", ",", " ", "1", "2", ")", " ", " ", " ", "c">>
    /\ annotated[a].formattedHunk[3] =
         <<"(", "1", "0", ",", " ", ")", " ", " ", " ", "-", "o">>
    /\ Len(annotated[a].formattedHunk[5]) = 8 + 1 + 2

\* The returns of computeHunkWithLineNumbers for the hunks of the file at
\* hand that have been annotated: the last hi - 1 of them all.
DoneHunks == [k \in 1..(hi - 1) |-> annotated[Len(annotated) - (hi - 1) + k]]

\* `table` is the tables ts set one after another: it has every key of
\* each, with the line of the last of them that has the key.
UnionInOrder(table, ts) ==
  /\ DOMAIN table = UNION {DOMAIN ts[k] : k \in 1..Len(ts)}
  /\ \A x \in DOMAIN table :
       LET last == CHOOSE k \in 1..Len(ts) :
                     x \in DOMAIN ts[k] /\ \A j \in (k + 1)..Len(ts) : x \notin DOMAIN ts[j]
       IN  table[x] = ts[last][x]

\* C25: the old (new) table of a file is the union of the old (new) tables
\* of its hunks in hunk order: every key of a hunk is there, and a number
\* two hunks give has the line of the later hunk.
C25_FileTables ==
  /\ pcA = "hunks" =>
       /\ UnionInOrder(oldLinesWithNumber, [k \in 1..(hi - 1) |-> DoneHunks[k].oldLines])
       /\ UnionInOrder(newLinesWithNumber, [k \in 1..(hi - 1) |-> DoneHunks[k].newLines])
  /\ (pcA = "files" /\ fi > 1) =>
       /\ outFiles[fi - 1].oldLinesWithNumber = oldLinesWithNumber
       /\ outFiles[fi - 1].newLinesWithNumber = newLinesWithNumber
C25_Witness ==
  /\ pcA = "done"
  /\ Len(outFiles) = 1
  /\ Len(annotated) = 2
  /\ annotated[1].hunk.hunkLines = <<GarbageHeader, ContextLineText>>
  /\ annotated[2].hunk.hunkLines = <<GarbageHeader, RemovedLineText>>
  /\ outFiles[1].oldLinesWithNumber[0] = RemovedLineText
  /\ outFiles[1].newLinesWithNumber[0] = ContextLineText

\* The old and the new tables of the annotated hunks of the file at hand
\* have no key in common from one hunk to another.
DisjointKeys ==
  \A j, k \in 1..(hi - 1) :
    j < k =>
      /\ (DOMAIN DoneHunks[j].oldLines) \cap (DOMAIN DoneHunks[k].oldLines) = {}
      /\ (DOMAIN DoneHunks[j].newLines) \cap (DOMAIN DoneHunks[k].newLines) = {}
SizesAddUp ==
  /\ Cardinality(DOMAIN oldLinesWithNumber)
       = SumSeq([k \in 1..(hi - 1) |-> Cardinality(DOMAIN DoneHunks[k].oldLines)])
  /\ Cardinality(DOMAIN newLinesWithNumber)
       = SumSeq([k \in 1..(hi - 1) |-> Cardinality(DOMAIN DoneHunks[k].newLines)])

\* C26 as it was claimed: in a file a later hunk never gives a number an
\* earlier hunk gave in the same table, so the size of a table of the file
\* is the sum of the sizes of the tables of its hunks.
C26_UniqueKeys ==
  pcA = "hunks" => (DisjointKeys /\ SizesAddUp)

\* Each hunk starts beyond the old and the new lines of the one before it.
Increasing(hs) ==
  \A k \in 1..(Len(hs) - 1) :
    /\ hs[k + 1].oldStart >= hs[k].oldStart + OldCount(hs[k], Len(hs[k].hunkLines) + 1)
    /\ hs[k + 1].newStart >= hs[k].newStart + NewCount(hs[k], Len(hs[k].hunkLines) + 1)

\* C26, amended: in a file whose hunks each start beyond the old and new
\* lines of the hunk before, a later hunk never gives a number an earlier
\* hunk gave in the same table, and the size of a table of the file is the
\* sum of the sizes of the tables of its hunks.
C26_UniqueKeysWhenIncreasing ==
  (pcA = "hunks" /\ Increasing(hunks)) => (DisjointKeys /\ SizesAddUp)
C26_Witness ==
  /\ pcA = "hunks"
  /\ hi = 3
  /\ diffFiles[fi] = TwoHunkDiff
  /\ Increasing(hunks)
  /\ DOMAIN oldLinesWithNumber = {1, 9}
  /\ DOMAIN newLinesWithNumber = {1, 12, 13}

\* C27: a hunk splitHunk emits has at least one body line after its
\* header: a header right before another header or before the end of the
\* text gives no hunk.
C27_NoEmptyHunk ==
  pcA = "hunks" =>
    \A k \in 1..Len(hunks) :
      IsHeader(hunks[k].hunkLines[1]) => Len(hunks[k].hunkLines) >= 2

\* C28: reviewMergeRequest terminates for every batch size the
\* configuration can supply, 0 and the negative ones too: every turn of the
\* loop of splitIntoBatches moves i towards the end of the list, so the
\* loop takes no more turns than the list has files.
C28_SplitReachesEnd ==
  pc = "split" => Len(batches) <= Len(changes)

\* C29: every result reviewMergeRequest returns has a score from 1 to 10:
\* the score of a batch is a whole number from 1 to 10, and the score of
\* several batches merged lies between the smallest and the largest of
\* theirs.
C29_ScoreInRange ==
  /\ \A k \in 1..Len(batchResults) :
       batchResults[k].score \in {sc * ScoreScale : sc \in MinScore..MaxScore}
  /\ pc = "returned" =>
       /\ result[1].score >= MinScore * ScoreScale
       /\ result[1].score <= MaxScore * ScoreScale
       /\ (shouldBatch /\ batchResults # <<>>) =>
            /\ \E m \in 1..Len(batchResults) : batchResults[m].score <= result[1].score
            /\ \E m \in 1..Len(batchResults) : batchResults[m].score >= result[1].score

\* The error processMergeRequest caught came from fetching the diff or
\* from the review.
FetchOrReviewFailed ==
  \/ caught = GitlabError
  \/ pc = "rejected" /\ caught = error

\* C30: when fetching the diff or the review fails, a failure notification
\* with the message of that error is sent and processMergeRequest then
\* rejects with that error, also when sending the notification fails
\* (seen here with a batch size of at least 1).
C30_OriginalErrorSeen ==
  (pcM = "threw" /\ FetchOrReviewFailed /\ maxFilesPerReview > 0) =>
    /\ \E k \in 1..Len(notified) :
         notified[k] = [kind |-> "failure", payload |-> <<caught>>]
    /\ thrown = <<caught>>

=============================================================================
